---- MODULE Spec2Model ----
(***************************************************************************)
(* Model of codes/generate_cube_files_from_GCMC_snapshots.py:              *)
(*   make_prob_density          (trajectory parser + density estimator)    *)
(*   local_average_3d           (boundary-corrected local mean filter)     *)
(*   get_filtered_prob_density  (orchestrator, four cube-file writes)      *)
(*                                                                         *)
(* Floating-point numbers are modelled as exact extended rationals <<p,q>> *)
(* in lowest terms: q > 0 is a finite value, <<1,0>> / <<-1,0>> are the    *)
(* infinities and <<0,0>> is NaN, so that x/0 behaves as numpy's division  *)
(* does (a value, never an exception). Rounding is not modelled.           *)
(***************************************************************************)
EXTENDS Integers, Sequences, FiniteSets, TLC

VARIABLES
    pdb_filename_before,        \* contents (sequence of lines) of the "before" file
    pdb_filename_after,         \* contents of the "after" file
    atm,                        \* target element symbol
    grid_size,                  \* bins per axis
    padding_n,                  \* smoothing radius
    pc,                         \* position of the run
    which,                      \* which make_prob_density call is active
    idx,                        \* line the active loop is at (1-based)
    abc,                        \* <<a, b, c>> once bound, <<>> while unbound
    in_model,                   \* the scan's in-model flag
    coords,                     \* the coordinate list
    prob_density_before,
    prob_density_after,
    prob_density_diff,
    prob_density_diff_filtered,
    written,                    \* the cube files written so far, in order
    err,                        \* the exception that ended the run, "" if none
    array,                      \* local_average_3d called on its own: argument
    n,                          \* ... its radius
    avg_array,                  \* ... its result
    fpc                         \* ... "call" before, "ret" after

vars == <<pdb_filename_before, pdb_filename_after, atm, grid_size, padding_n,
          pc, which, idx, abc, in_model, coords,
          prob_density_before, prob_density_after, prob_density_diff,
          prob_density_diff_filtered, written, err,
          array, n, avg_array, fpc>>

(***************************************************************************)
(* Bounds of the model.                                                    *)
(***************************************************************************)
MaxHeaderLines == 3
MaxBodyLines == 4
MaxAtoms == 2
MaxGrid == 2
MaxN == 1
MaxDim == 2

(***************************************************************************)
(* Extended rational arithmetic (the float64 values of the arrays).        *)
(***************************************************************************)
Abs(x) == IF x < 0 THEN -x ELSE x

RECURSIVE GCD(_, _)
GCD(x, y) == IF y = 0 THEN x ELSE GCD(y, x % y)

Reduce(p, q) ==
    LET g == GCD(Abs(p), Abs(q))
        s == IF q < 0 THEN -1 ELSE 1
    IN  IF g = 0 THEN <<0, 0>> ELSE <<s * (p \div g), s * (q \div g)>>

R(i) == <<i, 1>>
NaN == <<0, 0>>
IsNaN(x) == x = NaN
IsFinite(x) == x[2] > 0

RAdd(x, y) == Reduce(x[1] * y[2] + y[1] * x[2], x[2] * y[2])
RSub(x, y) == Reduce(x[1] * y[2] - y[1] * x[2], x[2] * y[2])
RDiv(x, y) == Reduce(x[1] * y[2], x[2] * y[1])
RLeq(x, y) == x[1] * y[2] <= y[1] * x[2]

\* f[lo] + ... + f[hi], summed pairwise
RECURSIVE RSumRange(_, _, _)
RSumRange(f, lo, hi) ==
    IF lo > hi THEN R(0)
    ELSE IF lo = hi THEN f[lo]
    ELSE LET mid == (lo + hi) \div 2
         IN  RAdd(RSumRange(f, lo, mid), RSumRange(f, mid + 1, hi))

\* the sum of f over the box of index triples lo .. hi (inclusive per axis)
BoxSum(f, lo, hi) ==
    RSumRange([i \in lo[1]..hi[1] |->
        RSumRange([j \in lo[2]..hi[2] |->
            RSumRange([k \in lo[3]..hi[3] |-> f[<<i, j, k>>]], lo[3], hi[3])],
            lo[2], hi[2])], lo[1], hi[1])

(***************************************************************************)
(* 3D arrays: a shape and a value per 0-based index triple.                *)
(***************************************************************************)
Idx(shape) ==
    {<<i, j, k>> : i \in 0..shape[1]-1, j \in 0..shape[2]-1, k \in 0..shape[3]-1}

NoArray == [shape |-> <<0, 0, 0>>, val |-> [i \in {} |-> NaN]]

HasNaN(g) == \E i \in Idx(g.shape) : IsNaN(g.val[i])

\* ndarray.min() / ndarray.max(): NaN when any cell is NaN.
ArrMin(g) ==
    IF HasNaN(g) THEN NaN
    ELSE g.val[CHOOSE i \in Idx(g.shape) :
                 \A j \in Idx(g.shape) : RLeq(g.val[i], g.val[j])]

ArrMax(g) ==
    IF HasNaN(g) THEN NaN
    ELSE g.val[CHOOSE i \in Idx(g.shape) :
                 \A j \in Idx(g.shape) : RLeq(g.val[j], g.val[i])]


\* a - b and a / b, cell by cell (numpy division: x/0 is a value, not an error).
ArrSub(g, h) == [shape |-> g.shape,
                 val |-> [i \in Idx(g.shape) |-> RSub(g.val[i], h.val[i])]]

ArrDiv(g, h) == [shape |-> g.shape,
                 val |-> [i \in Idx(g.shape) |-> RDiv(g.val[i], h.val[i])]]

ArrDivScalar(g, x) == [shape |-> g.shape,
                       val |-> [i \in Idx(g.shape) |-> RDiv(g.val[i], x)]]

ArrSum(g) ==
    BoxSum(g.val, <<0, 0, 0>>, <<g.shape[1] - 1, g.shape[2] - 1, g.shape[3] - 1>>)

(***************************************************************************)
(* Lines of a trajectory file. Only the columns the code reads are kept:   *)
(*   head  = columns 1-6 (characters)                                      *)
(*   cryst = columns 7-15, 16-24, 25-33 (three numeric fields)             *)
(*   xyz   = columns 31-38, 39-46, 47-54 (three numeric fields)            *)
(*   el    = columns 77-78 (characters)                                    *)
(* A numeric field is <<v>> when float() accepts it and <<>> when float()  *)
(* raises ValueError.                                                      *)
(***************************************************************************)
StartsWith(s, prefix) ==
    Len(s) >= Len(prefix) /\ SubSeq(s, 1, Len(prefix)) = prefix

RECURSIVE LStrip(_)
LStrip(s) == IF s # <<>> /\ Head(s) = " " THEN LStrip(Tail(s)) ELSE s

RECURSIVE RStrip(_)
RStrip(s) ==
    IF s # <<>> /\ s[Len(s)] = " " THEN RStrip(SubSeq(s, 1, Len(s) - 1)) ELSE s

Strip(s) == RStrip(LStrip(s))

FloatOk(field) == Len(field) = 1
Float(field) == field[1]
AllFloatOk(fields) == \A d \in 1..3 : FloatOk(fields[d])
Floats(fields) == <<Float(fields[1]), Float(fields[2]), Float(fields[3])>>

TagCRYST1 == <<"C", "R", "Y", "S", "T", "1">>
TagMODEL == <<"M", "O", "D", "E", "L">>
TagENDMDL == <<"E", "N", "D", "M", "D", "L">>
TagATOM == <<"A", "T", "O", "M">>

(***************************************************************************)
(* make_prob_density, lines 47-54: linspace, histogramdd, hist / hist.sum  *)
(***************************************************************************)
\* np.linspace(start, stop, num), num >= 2: a 1-based sequence of num points.
linspace(start, stop, num) ==
    [i \in 1..num |-> Reduce(start * (num - 1) + (i - 1) * (stop - start), num - 1)]

\* np.searchsorted(edges, x, side='right'): how many edges are <= x.
searchsorted_right(edges, x) ==
    Cardinality({i \in 1..Len(edges) : RLeq(edges[i], R(x))})

\* the bin number without the shift of the last edge (np.digitize's rule)
Ncount_no_edge_shift(edges, x) == searchsorted_right(edges, x)

\* histogramdd's bin number of x on one axis, among len(edges)+1 bins of which
\* the first and the last collect the outliers; a value equal to the last
\* edge is shifted one bin to the left.
Ncount(edges, x) ==
    LET c == searchsorted_right(edges, x)
        on_edge == R(x) = edges[Len(edges)]
    IN  IF on_edge THEN c - 1 ELSE c

\* np.array(coords) of an empty list is 1-D; of a list of triples it is (N, 3).
SampleD(sample) == IF sample = <<>> THEN 1 ELSE 3

\* The core of the histogram (outlier bins removed), as float counts.
histogramdd(sample, bins) ==
    LET sh == <<Len(bins[1]) - 1, Len(bins[2]) - 1, Len(bins[3]) - 1>>
    IN  [shape |-> sh,
         val |-> [i \in Idx(sh) |->
                    R(Cardinality({s \in 1..Len(sample) :
                        \A d \in 1..3 : Ncount(bins[d], sample[s][d]) = i[d] + 1}))]]

\* a histogram call that accepts the empty sample
histogramdd_accepts_empty(sample, bins) == FALSE

\* histogramdd raises ValueError when len(bins) differs from the sample's D.
histogramdd_raises(sample, bins) == Len(bins) # SampleD(sample)

Edges(cell, g) ==
    <<linspace(0, cell[1], g + 1), linspace(0, cell[2], g + 1), linspace(0, cell[3], g + 1)>>

\* the histogram returned as it is, line 54 left out
ProbDensity_unnormalised(sample, cell, g) == histogramdd(sample, Edges(cell, g))

\* lines 52-54 once the histogram call has returned
ProbDensity(sample, cell, g) ==
    LET hist == histogramdd(sample, Edges(cell, g))
    IN  ArrDivScalar(hist, ArrSum(hist))

(***************************************************************************)
(* local_average_3d                                                        *)
(***************************************************************************)
\* np.pad(a, pad_width=w, mode='constant', constant_values=c)
pad(a, w, c) ==
    LET sh == <<a.shape[1] + 2 * w, a.shape[2] + 2 * w, a.shape[3] + 2 * w>>
    IN  [shape |-> sh,
         val |-> [i \in Idx(sh) |->
                    IF \A d \in 1..3 : i[d] >= w /\ i[d] < w + a.shape[d]
                    THEN a.val[<<i[1] - w, i[2] - w, i[3] - w>>]
                    ELSE c]]

\* sliding_window_view(p, (w, w, w)).sum(axis=(-3, -2, -1))
window_sums(p, w) ==
    LET sh == <<p.shape[1] - w + 1, p.shape[2] - w + 1, p.shape[3] - w + 1>>
    IN  [shape |-> sh,
         val |-> [i \in Idx(sh) |->
                    BoxSum(p.val, i, <<i[1] + w - 1, i[2] + w - 1, i[3] + w - 1>>)]]

ones_like(a) == [shape |-> a.shape, val |-> [i \in Idx(a.shape) |-> R(1)]]

\* line 77 alone: the mean over the zero-padded window (divides by its volume)
local_average_3d_padded_mean(arr, r) ==
    LET window_size == 2 * r + 1
        windows == window_sums(pad(arr, r, R(0)), window_size)
    IN  ArrDivScalar(windows, R(window_size * window_size * window_size))

\* the window taken one cell too wide on every side
local_average_3d_radius_off_by_one(arr, r) ==
    LET window_size == 2 * (r + 1) + 1
        windows == window_sums(pad(arr, r + 1, R(0)), window_size)
        counts == window_sums(pad(ones_like(arr), r + 1, R(0)), window_size)
    IN  ArrDiv(windows, counts)

local_average_3d(arr, r) ==
    LET padded == pad(arr, r, R(0))
        window_size == 2 * r + 1
        windows == window_sums(padded, window_size)
        mask == ones_like(arr)
        padded_mask == pad(mask, r, R(0))
        counts == window_sums(padded_mask, window_size)
    IN  ArrDiv(windows, counts)


(***************************************************************************)
(* make_prob_density, lines 21-44: the two scans, one line per step.       *)
(***************************************************************************)
\* the first scan without its break: the last CRYST1 record wins
CrystStep_no_break(line, i, cur) ==
    IF StartsWith(line.head, TagCRYST1)
    THEN IF AllFloatOk(line.cryst)
         THEN [pc |-> "cryst", idx |-> i + 1, abc |-> Floats(line.cryst), err |-> ""]
         ELSE [pc |-> "error", idx |-> i, abc |-> cur, err |-> "ValueError"]
    ELSE [pc |-> "cryst", idx |-> i + 1, abc |-> cur, err |-> ""]

\* lines 23-27 on one line of the first scan; cur is <<a, b, c>> so far
CrystStep(line, i, cur) ==
    IF StartsWith(line.head, TagCRYST1)
    THEN IF AllFloatOk(line.cryst)
         THEN [pc |-> "print", idx |-> i, abc |-> Floats(line.cryst), err |-> ""]
         ELSE [pc |-> "error", idx |-> i, abc |-> cur, err |-> "ValueError"]
    ELSE [pc |-> "cryst", idx |-> i + 1, abc |-> cur, err |-> ""]

\* the second scan with the in-model test dropped from line 38
ScanStep_ignoring_in_model(line, inm, cs, target) ==
    IF StartsWith(line.head, TagMODEL)
    THEN [in_model |-> TRUE, coords |-> cs, err |-> ""]
    ELSE IF StartsWith(line.head, TagENDMDL)
    THEN [in_model |-> FALSE, coords |-> cs, err |-> ""]
    ELSE IF StartsWith(line.head, TagATOM) /\ Strip(line.el) = target
    THEN IF AllFloatOk(line.xyz)
         THEN [in_model |-> inm, coords |-> Append(cs, Floats(line.xyz)), err |-> ""]
         ELSE [in_model |-> inm, coords |-> cs, err |-> "ValueError"]
    ELSE [in_model |-> inm, coords |-> cs, err |-> ""]

\* lines 34-44 on one line of the second scan
ScanStep(line, inm, cs, target) ==
    IF StartsWith(line.head, TagMODEL)
    THEN [in_model |-> TRUE, coords |-> cs, err |-> ""]
    ELSE IF StartsWith(line.head, TagENDMDL)
    THEN [in_model |-> FALSE, coords |-> cs, err |-> ""]
    ELSE IF inm /\ StartsWith(line.head, TagATOM) /\ Strip(line.el) = target
    THEN IF AllFloatOk(line.xyz)
         THEN [in_model |-> inm, coords |-> Append(cs, Floats(line.xyz)), err |-> ""]
         ELSE [in_model |-> inm, coords |-> cs, err |-> "ValueError"]
    ELSE [in_model |-> inm, coords |-> cs, err |-> ""]

\* v / (max - min): the subtraction of the minimum left out
MinMaxNormalise_no_shift(g) ==
    LET mn == ArrMin(g)
        mx == ArrMax(g)
    IN  [shape |-> g.shape,
         val |-> [i \in Idx(g.shape) |-> RDiv(g.val[i], RSub(mx, mn))]]

\* lines 98-99: (v - min) / (max - min) over the whole grid
MinMaxNormalise(g) ==
    LET mn == ArrMin(g)
        mx == ArrMax(g)
    IN  [shape |-> g.shape,
         val |-> [i \in Idx(g.shape) |-> RDiv(RSub(g.val[i], mn), RSub(mx, mn))]]

\* the four output files, in the order of lines 110-113
Stages == <<"before_step", "after_step", "difference", "difference_filtered">>

(***************************************************************************)
(* Inputs.                                                                 *)
(***************************************************************************)
Ar == <<"A", "r">>
Carbon == <<"C">>

NoFields == <<<<>>, <<>>, <<>>>>
Fields(t) == <<<<t[1]>>, <<t[2]>>, <<t[3]>>>>

CrystLine(cell) ==
    [head |-> <<"C", "R", "Y", "S", "T", "1">>, cryst |-> Fields(cell),
     xyz |-> NoFields, el |-> <<>>]
BadCrystLine ==
    [head |-> <<"C", "R", "Y", "S", "T", "1">>, cryst |-> <<<<2>>, <<>>, <<2>>>>,
     xyz |-> NoFields, el |-> <<>>]
ModelLine ==
    [head |-> <<"M", "O", "D", "E", "L", " ">>, cryst |-> NoFields,
     xyz |-> NoFields, el |-> <<>>]
EndmdlLine ==
    [head |-> <<"E", "N", "D", "M", "D", "L">>, cryst |-> NoFields,
     xyz |-> NoFields, el |-> <<>>]
AtomLine(el, p) ==
    [head |-> <<"A", "T", "O", "M", " ", " ">>, cryst |-> NoFields,
     xyz |-> Fields(p), el |-> el]
BadAtomLine(el) ==
    [head |-> <<"A", "T", "O", "M", " ", " ">>, cryst |-> NoFields,
     xyz |-> <<<<1>>, <<>>, <<1>>>>, el |-> el]
HetatmLine(el, p) ==
    [head |-> <<"H", "E", "T", "A", "T", "M">>, cryst |-> NoFields,
     xyz |-> Fields(p), el |-> el]

CellA == <<2, 2, 2>>
CellB == <<4, 2, 2>>

SeqsUpTo(S, k) == UNION {[1..m -> S] : m \in 0..k}

\* any short sequence of header-like lines
HeaderFiles ==
    SeqsUpTo({CrystLine(CellA), CrystLine(CellB), BadCrystLine, ModelLine,
              AtomLine(Ar, <<1, 1, 1>>)}, MaxHeaderLines)

\* a header followed by any short sequence of body lines
BodyFiles ==
    {<<CrystLine(CellA)>> \o b :
        b \in SeqsUpTo({ModelLine, EndmdlLine, AtomLine(Ar, <<0, 0, 0>>),
                        AtomLine(<<" ", "C">>, <<1, 1, 1>>),
                        HetatmLine(Ar, <<2, 2, 2>>), BadAtomLine(Ar)}, MaxBodyLines)}

\* one model block holding the given atoms of the given element
ModelFile(cell, el, ps) ==
    <<CrystLine(cell), ModelLine>> \o [i \in 1..Len(ps) |-> AtomLine(el, ps[i])]
        \o <<EndmdlLine>>

Positions ==
    {<<0, 0, 0>>, <<1, 1, 1>>, <<2, 2, 2>>, <<1, 2, 0>>, <<3, 1, 1>>,
     <<-1, 1, 1>>, <<1, 1, 3>>}

DensityFiles ==
    {ModelFile(cell, Ar, ps) : cell \in {CellA, CellB}, ps \in SeqsUpTo(Positions, MaxAtoms)}

Corners ==
    <<<<0, 0, 0>>, <<0, 0, 2>>, <<0, 2, 0>>, <<0, 2, 2>>,
      <<2, 0, 0>>, <<2, 0, 2>>, <<2, 2, 0>>, <<2, 2, 2>>>>

PipelineFiles ==
    {ModelFile(CellA, Ar, <<<<0, 0, 0>>>>),
     ModelFile(CellA, Ar, <<<<2, 2, 2>>>>),
     ModelFile(CellA, Ar, <<<<0, 0, 0>>, <<0, 0, 0>>, <<2, 2, 2>>>>),
     ModelFile(CellA, Ar, Corners),
     ModelFile(CellA, Ar, Corners \o <<<<0, 0, 0>>>>),
     ModelFile(CellA, <<" ", "C">>, <<<<1, 1, 1>>>>),
     ModelFile(CellA, Ar, <<<<3, 3, 3>>>>)}

Runs ==
    {[before |-> f, after |-> <<>>, atm |-> Ar, grid_size |-> MaxGrid, padding_n |-> 0] :
        f \in HeaderFiles}
    \cup
    {[before |-> f, after |-> <<>>, atm |-> t, grid_size |-> MaxGrid, padding_n |-> 0] :
        f \in BodyFiles, t \in {Ar, Carbon}}
    \cup
    {[before |-> f, after |-> <<>>, atm |-> Ar, grid_size |-> g, padding_n |-> 0] :
        f \in DensityFiles, g \in 1..MaxGrid}
    \cup
    {[before |-> f, after |-> h, atm |-> Ar, grid_size |-> g, padding_n |-> r] :
        f \in PipelineFiles, h \in PipelineFiles, g \in 1..MaxGrid, r \in 0..MaxN}

(***************************************************************************)
(* The run of the script: get_filtered_prob_density.                       *)
(***************************************************************************)
File == IF which = "before" THEN pdb_filename_before ELSE pdb_filename_after

inputs == <<pdb_filename_before, pdb_filename_after, atm, grid_size, padding_n>>
filter_vars == <<array, n, avg_array, fpc>>
grids == <<prob_density_before, prob_density_after, prob_density_diff,
           prob_density_diff_filtered>>

Init ==
    /\ \E r \in Runs :
        /\ pdb_filename_before = r.before
        /\ pdb_filename_after = r.after
        /\ atm = r.atm
        /\ grid_size = r.grid_size
        /\ padding_n = r.padding_n
    /\ pc = "call"
    /\ which = "before"
    /\ idx = 1
    /\ abc = <<>>
    /\ in_model = FALSE
    /\ coords = <<>>
    /\ prob_density_before = NoArray
    /\ prob_density_after = NoArray
    /\ prob_density_diff = NoArray
    /\ prob_density_diff_filtered = NoArray
    /\ written = <<>>
    /\ err = ""
    /\ array = NoArray
    /\ n = 0
    /\ avg_array = NoArray
    /\ fpc = "idle"

\* lines 95 / 96: make_prob_density is entered, its locals are fresh
Enter ==
    /\ pc = "call"
    /\ pc' = "cryst"
    /\ idx' = 1
    /\ abc' = <<>>
    /\ UNCHANGED <<inputs, which, in_model, coords, grids, written, err, filter_vars>>

\* lines 21-27: one iteration of the first scan, or its end
CrystScan ==
    /\ pc = "cryst"
    /\ IF idx > Len(File)
       THEN pc' = "print" /\ UNCHANGED <<idx, abc, err>>
       ELSE LET s == CrystStep(File[idx], idx, abc)
            IN  pc' = s.pc /\ idx' = s.idx /\ abc' = s.abc /\ err' = s.err
    /\ UNCHANGED <<inputs, which, in_model, coords, grids, written, filter_vars>>

\* lines 28-32: print(a, b, c) reads the three names, then the second scan starts
PrintCell ==
    /\ pc = "print"
    /\ IF abc = <<>>
       THEN pc' = "error" /\ err' = "UnboundLocalError"
            /\ UNCHANGED <<idx, in_model, coords>>
       ELSE pc' = "scan" /\ idx' = 1 /\ in_model' = FALSE /\ coords' = <<>>
            /\ UNCHANGED err
    /\ UNCHANGED <<inputs, which, abc, grids, written, filter_vars>>

\* lines 33-44: one iteration of the second scan
ScanLine ==
    /\ pc = "scan"
    /\ idx <= Len(File)
    /\ LET s == ScanStep(File[idx], in_model, coords, atm)
       IN  /\ in_model' = s.in_model
           /\ coords' = s.coords
           /\ err' = s.err
           /\ IF s.err = "" THEN pc' = "scan" /\ idx' = idx + 1
                            ELSE pc' = "error" /\ UNCHANGED idx
    /\ UNCHANGED <<inputs, which, abc, grids, written, filter_vars>>

\* lines 45-56: histogram, division by the total, return to line 95 / 96
Histogram ==
    /\ pc = "scan"
    /\ idx > Len(File)
    /\ IF histogramdd_raises(coords, Edges(abc, grid_size))
       THEN pc' = "error" /\ err' = "ValueError"
            /\ UNCHANGED <<which, prob_density_before, prob_density_after>>
       ELSE /\ err' = ""
            /\ IF which = "before"
               THEN /\ prob_density_before' = ProbDensity(coords, abc, grid_size)
                    /\ which' = "after"
                    /\ pc' = "call"
                    /\ UNCHANGED prob_density_after
               ELSE /\ prob_density_after' = ProbDensity(coords, abc, grid_size)
                    /\ pc' = "normalise"
                    /\ UNCHANGED <<which, prob_density_before>>
    /\ UNCHANGED <<inputs, idx, abc, in_model, coords, prob_density_diff,
                   prob_density_diff_filtered, written, filter_vars>>

\* lines 98-99
Normalise ==
    /\ pc = "normalise"
    /\ prob_density_before' = MinMaxNormalise(prob_density_before)
    /\ prob_density_after' = MinMaxNormalise(prob_density_after)
    /\ pc' = "diff"
    /\ UNCHANGED <<inputs, which, idx, abc, in_model, coords, prob_density_diff,
                   prob_density_diff_filtered, written, err, filter_vars>>

\* lines 101-108
DiffFilter ==
    /\ pc = "diff"
    /\ prob_density_diff' = ArrSub(prob_density_after, prob_density_before)
    /\ prob_density_diff_filtered' =
           local_average_3d(ArrSub(prob_density_after, prob_density_before), padding_n)
    /\ pc' = "write"
    /\ UNCHANGED <<inputs, which, idx, abc, in_model, coords, prob_density_before,
                   prob_density_after, written, err, filter_vars>>

Data(stage) ==
    CASE stage = "before_step" -> prob_density_before
      [] stage = "after_step" -> prob_density_after
      [] stage = "difference" -> prob_density_diff
      [] stage = "difference_filtered" -> prob_density_diff_filtered

\* lines 110-113: the next write call returns
WriteCube ==
    /\ pc = "write"
    /\ Len(written) < Len(Stages)
    /\ written' = Append(written, [name |-> Stages[Len(written) + 1],
                                   data |-> Data(Stages[Len(written) + 1])])
    /\ UNCHANGED <<inputs, pc, which, idx, abc, in_model, coords, grids, err, filter_vars>>

\* lines 110-113: the next write call raises (unwritable destination)
WriteCubeRaises ==
    /\ pc = "write"
    /\ Len(written) < Len(Stages)
    /\ pc' = "error"
    /\ err' = "OSError"
    /\ UNCHANGED <<inputs, which, idx, abc, in_model, coords, grids, written, filter_vars>>

\* line 115
Return ==
    /\ pc = "write"
    /\ Len(written) = Len(Stages)
    /\ pc' = "done"
    /\ UNCHANGED <<inputs, which, idx, abc, in_model, coords, grids, written, err, filter_vars>>

Next ==
    \/ Enter
    \/ CrystScan
    \/ PrintCell
    \/ ScanLine
    \/ Histogram
    \/ Normalise
    \/ DiffFilter
    \/ WriteCube
    \/ WriteCubeRaises
    \/ Return

Spec == Init /\ [][Next]_vars


(***************************************************************************)
(* local_average_3d called on its own, on arrays of any small shape.       *)
(***************************************************************************)
Shapes == {<<x, y, z>> : x \in 1..MaxDim, y \in 1..MaxDim, z \in 1..MaxDim}

\* the 1D array [1, 2, 3, 4, 5] as a 3D array of shape (5, 1, 1)
Analog1D == [shape |-> <<5, 1, 1>>, val |-> [i \in Idx(<<5, 1, 1>>) |-> R(i[1] + 1)]]

\* np.arange(1, X*Y*Z + 1).reshape(shape): every cell a different value
Arange(sh) ==
    [shape |-> sh,
     val |-> [i \in Idx(sh) |-> R(1 + i[1] * sh[2] * sh[3] + i[2] * sh[3] + i[3])]]

\* the value u at cell p, the value w everywhere else
Delta(sh, p, u, w) ==
    [shape |-> sh, val |-> [i \in Idx(sh) |-> IF i = p THEN R(u) ELSE R(w)]]

FilterValues == {-1, 0, 2}

FilterArrays ==
    {Analog1D}
    \cup {Arange(sh) : sh \in Shapes}
    \cup UNION {{Delta(sh, p, u, w) : p \in Idx(sh), u \in FilterValues, w \in FilterValues} :
                    sh \in Shapes}

FilterInit ==
    /\ array \in FilterArrays
    /\ n \in 0..MaxN
    /\ avg_array = NoArray
    /\ fpc = "call"
    /\ pdb_filename_before = <<>>
    /\ pdb_filename_after = <<>>
    /\ atm = Ar
    /\ grid_size = 1
    /\ padding_n = 0
    /\ pc = "idle"
    /\ which = "before"
    /\ idx = 1
    /\ abc = <<>>
    /\ in_model = FALSE
    /\ coords = <<>>
    /\ prob_density_before = NoArray
    /\ prob_density_after = NoArray
    /\ prob_density_diff = NoArray
    /\ prob_density_diff_filtered = NoArray
    /\ written = <<>>
    /\ err = ""

\* lines 58-86, entry to return
FilterCall ==
    /\ fpc = "call"
    /\ avg_array' = local_average_3d(array, n)
    /\ fpc' = "ret"
    /\ UNCHANGED <<inputs, pc, which, idx, abc, in_model, coords, grids, written, err,
                   array, n>>

FilterNext == FilterCall

SpecFilter == FilterInit /\ [][FilterNext]_vars

(***************************************************************************)
(* Definitions the properties are stated with.                             *)
(***************************************************************************)
Max2(x, y) == IF x > y THEN x ELSE y
Min2(x, y) == IF x < y THEN x ELSE y

\* the in-bounds cells within r of cell i on every axis: a box lo .. hi
NeighLo(i, r) == <<Max2(0, i[1] - r), Max2(0, i[2] - r), Max2(0, i[3] - r)>>
NeighHi(i, r, sh) ==
    <<Min2(sh[1] - 1, i[1] + r), Min2(sh[2] - 1, i[2] + r), Min2(sh[3] - 1, i[3] + r)>>
NeighCount(i, r, sh) ==
    (NeighHi(i, r, sh)[1] - NeighLo(i, r)[1] + 1)
    * (NeighHi(i, r, sh)[2] - NeighLo(i, r)[2] + 1)
    * (NeighHi(i, r, sh)[3] - NeighLo(i, r)[3] + 1)
TrueMean(a, i, r) ==
    RDiv(BoxSum(a.val, NeighLo(i, r), NeighHi(i, r, a.shape)), R(NeighCount(i, r, a.shape)))

IsModelRec(line) == StartsWith(line.head, TagMODEL)
IsEndmdlRec(line) == StartsWith(line.head, TagENDMDL)
IsAtomRec(line) == StartsWith(line.head, TagATOM)
IsCrystRec(line) == StartsWith(line.head, TagCRYST1)

\* line j lies after a MODEL record with no ENDMDL record in between
InsideModel(f, j) ==
    \E m \in 1..(j - 1) :
        /\ IsModelRec(f[m])
        /\ \A e \in (m + 1)..(j - 1) : ~IsEndmdlRec(f[e])

Selected(f, j, target) ==
    /\ IsAtomRec(f[j])
    /\ Strip(f[j].el) = target
    /\ InsideModel(f, j)

\* the coordinates of the selected records among the first k lines, in file order
SelectedCoords(f, k, target) ==
    LET sel == SelectSeq([j \in 1..k |-> j], LAMBDA j : Selected(f, j, target))
    IN  [m \in 1..Len(sel) |-> Floats(f[sel[m]].xyz)]

CrystRecs(f) == {j \in 1..Len(f) : IsCrystRec(f[j])}
FirstCryst(f) == CHOOSE j \in CrystRecs(f) : \A m \in CrystRecs(f) : j <= m

\* x lies in bin b (0-based) of the g equal bins of [0, edge]: right-exclusive,
\* except that the last bin also holds x = edge
InBin(x, b, edge, g) ==
    /\ b * edge <= x * g
    /\ \/ x * g < (b + 1) * edge
       \/ b = g - 1 /\ x = edge

InBin3(p, i, cell, g) == \A d \in 1..3 : InBin(p[d], i[d], cell[d], g)
Inside(p, cell) == \A d \in 1..3 : 0 <= p[d] /\ p[d] <= cell[d]
BinCount(cs, i, cell, g) == Cardinality({s \in 1..Len(cs) : InBin3(cs[s], i, cell, g)})
NInside(cs, cell) == Cardinality({s \in 1..Len(cs) : Inside(cs[s], cell)})

\* a make_prob_density call has just returned; coords and abc are still its own
JustReturned == (pc = "call" /\ which = "after") \/ pc = "normalise"
Returned == IF pc = "normalise" THEN prob_density_after ELSE prob_density_before

IsFlat(g) == ~HasNaN(g) /\ ArrMin(g) = ArrMax(g)
NonDegenerate(g) == ~HasNaN(g) /\ ArrMin(g) # ArrMax(g)
Ended == pc \in {"done", "error"}


(***************************************************************************)
(* Properties.                                                             *)
(***************************************************************************)

\* C1: local_average_3d returns an array of the shape of its input in which
\* every cell is the sum of the in-bounds input cells within n of it on every
\* axis divided by the number of those cells (not by (2n+1)^3); on
\* [1,2,3,4,5] with n = 1 the value at index 0 is 3/2 and at index 2 is 3.
C1_BoundaryCorrectMean ==
    fpc = "ret" =>
        /\ avg_array.shape = array.shape
        /\ DOMAIN avg_array.val = Idx(array.shape)
        /\ \A i \in Idx(array.shape) : avg_array.val[i] = TrueMean(array, i, n)
        /\ (array = Analog1D /\ n = 1) =>
              /\ avg_array.val[<<0, 0, 0>>] = <<3, 2>>
              /\ avg_array.val[<<2, 0, 0>>] = <<3, 1>>

\* C1 witness: the 1D analog has been filtered with n = 1, its first cell
\* averaging over a window cut by the boundary.
C1_Witness ==
    /\ fpc = "ret"
    /\ array = Analog1D
    /\ n = 1
    /\ avg_array.val[<<0, 0, 0>>] = <<3, 2>>
    /\ NeighCount(<<0, 0, 0>>, n, array.shape) < (2 * n + 1) * (2 * n + 1) * (2 * n + 1)

\* C2 (as claimed): when the run has ended, all four output files have been
\* written or none has.
C2_AllOrNone == Ended => Len(written) \in {0, Len(Stages)}

\* C3: a make_prob_density call whose coordinate list is empty ends in an
\* error (the histogram call raises); it returns no grid, and no output file
\* is written.
C3_EmptySelectionRaises ==
    /\ JustReturned => coords # <<>>
    /\ (pc = "scan" /\ idx > Len(File) /\ coords = <<>>) =>
          /\ written = <<>>
    /\ (pc = "error" /\ abc # <<>> /\ idx > Len(File) /\ coords = <<>>) =>
          /\ err = "ValueError"
          /\ written = <<>>
          /\ (IF which = "before" THEN prob_density_before ELSE prob_density_after) = NoArray
          /\ prob_density_diff = NoArray
          /\ prob_density_diff_filtered = NoArray

\* C3 witness: a file with a cell record and a model block but no atom of the
\* target element has been scanned to its end and the run has ended in error.
C3_Witness ==
    /\ pc = "error"
    /\ err = "ValueError"
    /\ abc # <<>>
    /\ idx > Len(File)
    /\ coords = <<>>
    /\ \E j \in 1..Len(File) : IsModelRec(File[j])

\* C4 (as claimed): when the before or the after density is flat, the
\* normalisation step fails: the run goes to error with no file written.
C4_FlatDensityAborts ==
    [][(pc = "normalise" /\ (IsFlat(prob_density_before) \/ IsFlat(prob_density_after)))
          => (pc' = "error" /\ written' = <<>>)]_vars

\* C5: while the second scan runs and when it ends, the coordinate list holds,
\* in file order, exactly the ATOM records scanned so far whose trimmed
\* element field is the target symbol and that lie inside a model block.
C5_CoordsExact ==
    pc = "scan" => coords = SelectedCoords(File, idx - 1, atm)

\* C5 witness: the scan has ended with a non-empty list on a file that also
\* holds a matching ATOM record outside every model block.
C5_Witness ==
    /\ pc = "scan"
    /\ idx > Len(File)
    /\ coords # <<>>
    /\ \E j \in 1..Len(File) :
          /\ IsAtomRec(File[j])
          /\ Strip(File[j].el) = atm
          /\ ~InsideModel(File, j)
    /\ \E j \in 1..Len(File) : IsEndmdlRec(File[j])

\* C6: for a non-empty coordinate list lying inside [0,a] x [0,b] x [0,c] the
\* returned grid has the shape grid_size^3, only non-negative cells, cells that
\* sum to 1, and each cell is its bin's count divided by the number of
\* coordinates.
C6_DensitySumsToOne ==
    (JustReturned /\ coords # <<>> /\ \A s \in 1..Len(coords) : Inside(coords[s], abc)) =>
        /\ Returned.shape = <<grid_size, grid_size, grid_size>>
        /\ \A i \in Idx(Returned.shape) :
              /\ IsFinite(Returned.val[i])
              /\ Returned.val[i][1] >= 0
              /\ Returned.val[i] = Reduce(BinCount(coords, i, abc, grid_size), Len(coords))
        /\ ArrSum(Returned) = R(1)

\* C6 witness: a grid was returned for two or more coordinates, all inside the
\* cell, that fall into different bins.
C6_Witness ==
    /\ JustReturned
    /\ Len(coords) >= 2
    /\ \A s \in 1..Len(coords) : Inside(coords[s], abc)
    /\ \E i, j \in Idx(Returned.shape) :
          i # j /\ Returned.val[i][1] > 0 /\ Returned.val[j][1] > 0

\* C7: every coordinate with all components in [0, edge] lies in exactly one
\* bin and every other coordinate in none, and the returned grid counts them
\* so: each cell is the number of coordinates in its bin (right-exclusive,
\* the last bin including the edge) divided by the number of coordinates
\* inside the cell.
C7_BinningRule ==
    JustReturned =>
        /\ \A s \in 1..Len(coords) :
              Cardinality({i \in Idx(Returned.shape) : InBin3(coords[s], i, abc, grid_size)})
                  = IF Inside(coords[s], abc) THEN 1 ELSE 0
        /\ \A i \in Idx(Returned.shape) :
              Returned.val[i] =
                  RDiv(R(BinCount(coords, i, abc, grid_size)), R(NInside(coords, abc)))

\* C7 witness: a grid was returned for coordinates of which one lies on an
\* inner bin boundary, one on the cell's far edge and one outside the cell.
C7_Witness ==
    /\ JustReturned
    /\ grid_size >= 2
    /\ ~HasNaN(Returned)
    /\ \E s \in 1..Len(coords) : \E d \in 1..3 :
          /\ Inside(coords[s], abc)
          /\ \E b \in 1..(grid_size - 1) : coords[s][d] * grid_size = b * abc[d]
    /\ \E s \in 1..Len(coords) : \E d \in 1..3 :
          Inside(coords[s], abc) /\ coords[s][d] = abc[d]
    /\ \E s \in 1..Len(coords) : ~Inside(coords[s], abc)

\* C8: the normalisation step turns every non-degenerate density into a grid
\* with minimum exactly 0 and maximum exactly 1, and the difference of two
\* such grids has every cell in [-1, 1].
C8_MinMaxRange ==
    [][/\ (pc = "normalise" /\ NonDegenerate(prob_density_before)) =>
              (ArrMin(prob_density_before') = R(0) /\ ArrMax(prob_density_before') = R(1))
       /\ (pc = "normalise" /\ NonDegenerate(prob_density_after)) =>
              (ArrMin(prob_density_after') = R(0) /\ ArrMax(prob_density_after') = R(1))
       /\ (pc = "diff" /\ ~HasNaN(prob_density_before) /\ ~HasNaN(prob_density_after)) =>
              \A i \in Idx(prob_density_diff'.shape) :
                  /\ RLeq(R(-1), prob_density_diff'.val[i])
                  /\ RLeq(prob_density_diff'.val[i], R(1))]_vars

\* C8 witness: both densities were non-degenerate, and the difference of the
\* normalised grids reaches -1 in one cell and is positive in another.
C8_Witness ==
    /\ pc = "write"
    /\ ArrMin(prob_density_before) = R(0)
    /\ ArrMax(prob_density_before) = R(1)
    /\ ArrMin(prob_density_after) = R(0)
    /\ ArrMax(prob_density_after) = R(1)
    /\ \E i, j \in Idx(prob_density_diff.shape) :
          prob_density_diff.val[i] = R(-1) /\ prob_density_diff.val[j][1] > 0

\* C9: with radius 0, local_average_3d returns its input, cell for cell.
C9_RadiusZeroIdentity ==
    (fpc = "ret" /\ n = 0) => avg_array = array

\* C9 witness: an array of more than one cell, not all equal, was filtered
\* with radius 0.
C9_Witness ==
    /\ fpc = "ret"
    /\ n = 0
    /\ \E i, j \in Idx(array.shape) : array.val[i] # array.val[j]

\* C10: the cell edges in use are those of the first record that starts with
\* CRYST1, whatever CRYST1 records follow it; a file without such a record
\* ends the run in an error before any grid is made or file written.
C10_FirstCrystWins ==
    /\ (pc \in {"print", "scan"} /\ abc # <<>>) =>
          /\ CrystRecs(File) # {}
          /\ abc = Floats(File[FirstCryst(File)].cryst)
    /\ (pc # "idle" /\ CrystRecs(File) = {}) =>
          /\ pc \in {"call", "cryst", "print", "error"}
          /\ pc = "error" => (err = "UnboundLocalError" /\ written = <<>>)
          /\ (IF which = "before" THEN prob_density_before ELSE prob_density_after) = NoArray

\* C10 witness: the second scan runs on a file with two CRYST1 records of
\* different cell edges.
C10_Witness ==
    /\ pc = "scan"
    /\ \E j, m \in CrystRecs(File) : j < m /\ File[j].cryst # File[m].cryst

====
